---------------------------- MODULE Spec2Model ----------------------------
(***************************************************************************)
(* A model of sigslot.h: signals (class signal / _signal) that own an      *)
(* ordered list of connections, receivers (class has_slots) that keep the  *)
(* set of signals connected to them, and the operations that keep the two  *)
(* sides in step: connect, disconnect, disconnect_all on either side,      *)
(* copy construction and destruction of either side, and emit.             *)
(*                                                                         *)
(* Under Spec every operation is one atomic action (the single_threaded    *)
(* policy, whose lock() and unlock() do nothing: one thread, operations    *)
(* run to their end).  Under SpecThreads two threads call one operation    *)
(* each under any of the three lock policies, and an operation is the      *)
(* sequence of its lock() calls and its accesses to the collections.       *)
(* An object is named by the rank of its address, so that a         *)
(* std::set of signal pointers is walked in ascending order of the names.  *)
(* A destroyed object's name may be given to a later object, as its        *)
(* storage may be.                                                         *)
(*                                                                         *)
(* Where the code has undefined behaviour the model takes every outcome a  *)
(* build produces: the step either goes on as if the freed storage were    *)
(* still intact, or the process faults (crashed), after which nothing      *)
(* runs.                                                                   *)
(***************************************************************************)
EXTENDS Integers, Sequences, FiniteSets, TLC

\* The most connection objects the program has at one time.
MaxConns == 4

\* The names of the signals and of the receivers, and the handlers and
\* arguments the program uses.
Sigs == {1, 2}
Rcvs == {1, 2}
MemFuns == {"h1", "h2"}
ArgVals == {"a1", "a2"}

VARIABLES
  alive_signals,      \* signals constructed and not yet destroyed
  alive_slots,        \* has_slots objects constructed and not yet destroyed
  m_connected_slots,  \* _signal::m_connected_slots of every signal
  m_senders,          \* has_slots::m_senders of every receiver
  invoked,            \* the handler calls made by the last operation, in order
  crashed,            \* the process has faulted
  last,               \* the last operation and its arguments
  policy,             \* the mt_policy the program's templates are built with
  g_mutex,            \* multi_threaded_global::get_mutex(): its owner
  m_mutex,            \* multi_threaded_local::m_mutex of every object: owner
  thread              \* every thread's place in the operation it has called

mt_vars == <<policy, g_mutex, m_mutex, thread>>

vars == <<alive_signals, alive_slots, m_connected_slots, m_senders,
          invoked, crashed, last, mt_vars>>

Min(S) == CHOOSE x \in S : \A y \in S : x <= y

\* std::list::erase(it) / remove(value of one node): the list without node i.
RemoveAt(list, i) == SubSeq(list, 1, i - 1) \o SubSeq(list, i + 1, Len(list))

RECURSIVE SumLen(_, _)
SumLen(slots, S) ==
  IF S = {} THEN 0 ELSE Len(slots[Min(S)]) + SumLen(slots, S \ {Min(S)})

\* Number of connection objects on the heap.
TotalConns(slots) == SumLen(slots, Sigs)

(***************************************************************************)
(* _connection                                                             *)
(***************************************************************************)
_connection(pobject, pmemfun) == [m_pobject |-> pobject, m_pmemfun |-> pmemfun]

getdest(slot) == slot.m_pobject

clone(slot) == _connection(slot.m_pobject, slot.m_pmemfun)

duplicate(slot, pnewdest) == _connection(pnewdest, slot.m_pmemfun)

\* _connection::emit: the call of m_pmemfun on m_pobject with the argument.
\* The handler's body is the caller's code; the model records the call, and
\* whether the object it is made on is alive at that time.
Call(slot, arg, alive) ==
  [dest |-> slot.m_pobject, memfun |-> slot.m_pmemfun, arg |-> arg,
   live |-> slot.m_pobject \in alive]

(***************************************************************************)
(* has_slots: the sender set                                               *)
(***************************************************************************)
signal_connect(senders, pclass, sender) ==
  [senders EXCEPT ![pclass] = @ \cup {sender}]

signal_disconnect(senders, pclass, sender) ==
  [senders EXCEPT ![pclass] = @ \ {sender}]

(***************************************************************************)
(* _signal: the loops over m_connected_slots                               *)
(***************************************************************************)
\* slot_duplicate: the range-for walks the list it appends to (std::list
\* iterators stay valid and end() is the list's sentinel), so it reaches the
\* appended nodes as well.
RECURSIVE SlotDuplicateLoop(_, _, _, _)
SlotDuplicateLoop(list, i, oldtarget, newtarget) ==
  IF i > Len(list) THEN list
  ELSE IF getdest(list[i]) = oldtarget
       THEN SlotDuplicateLoop(Append(list, duplicate(list[i], newtarget)),
                              i + 1, oldtarget, newtarget)
       ELSE SlotDuplicateLoop(list, i + 1, oldtarget, newtarget)

\* A slot_duplicate that leaves the loop after the first duplicate.
RECURSIVE SlotDuplicateFirstLoop(_, _, _, _)
SlotDuplicateFirstLoop(list, i, oldtarget, newtarget) ==
  IF i > Len(list) THEN list
  ELSE IF getdest(list[i]) = oldtarget
       THEN Append(list, duplicate(list[i], newtarget))
       ELSE SlotDuplicateFirstLoop(list, i + 1, oldtarget, newtarget)

slot_duplicate_first(list, oldtarget, newtarget) ==
  SlotDuplicateFirstLoop(list, 1, oldtarget, newtarget)

\* A slot_duplicate that rebinds the matching connections where they are.
slot_duplicate_rebind(list, oldtarget, newtarget) ==
  [i \in 1..Len(list) |->
     IF getdest(list[i]) = oldtarget THEN duplicate(list[i], newtarget)
                                     ELSE list[i]]

slot_duplicate(list, oldtarget, newtarget) ==
  SlotDuplicateLoop(list, 1, oldtarget, newtarget)

\* The number of nodes the range-for of slot_duplicate visits before it
\* reaches end().
RECURSIVE SlotDuplicateVisits(_, _, _, _)
SlotDuplicateVisits(list, i, oldtarget, newtarget) ==
  IF i > Len(list) THEN 0
  ELSE 1 + (IF getdest(list[i]) = oldtarget
            THEN SlotDuplicateVisits(
                   Append(list, duplicate(list[i], newtarget)),
                   i + 1, oldtarget, newtarget)
            ELSE SlotDuplicateVisits(list, i + 1, oldtarget, newtarget))

\* slot_disconnect: erase(it) frees the node and the for statement then
\* increments the erased iterator, which reads the freed node's link.  Either
\* the link is still there and the walk goes on at the old successor (now at
\* index i), or the read yields something else and the process faults.
RECURSIVE SlotDisconnectLoop(_, _, _)
SlotDisconnectLoop(list, i, pslot) ==
  IF i > Len(list) THEN {[list |-> list, crashed |-> FALSE]}
  ELSE IF getdest(list[i]) = pslot
       THEN {[list |-> RemoveAt(list, i), crashed |-> TRUE]}
            \cup SlotDisconnectLoop(RemoveAt(list, i), i, pslot)
       ELSE SlotDisconnectLoop(list, i + 1, pslot)

slot_disconnect(list, pslot) == SlotDisconnectLoop(list, 1, pslot)

\* disconnect: the first node whose target is pclass is deleted and removed,
\* pclass->signal_disconnect(this) is called, and the loop is left.
RECURSIVE DisconnectLoop(_, _, _)
DisconnectLoop(list, i, pclass) ==
  IF i > Len(list) THEN [list |-> list, found |-> FALSE]
  ELSE IF getdest(list[i]) = pclass
       THEN [list |-> RemoveAt(list, i), found |-> TRUE]
       ELSE DisconnectLoop(list, i + 1, pclass)

\* A disconnect that, finding no node whose target is pclass, erases the node
\* its walk stopped at, the last one.
disconnect_or_last(list, pclass) ==
  IF \E i \in 1..Len(list) : getdest(list[i]) = pclass
  THEN DisconnectLoop(list, 1, pclass)
  ELSE [list |-> SubSeq(list, 1, Len(list) - 1), found |-> FALSE]

\* A disconnect without the break: every node whose target is pclass goes.
disconnect_every(list, pclass) ==
  [list |-> SelectSeq(list, LAMBDA c : getdest(c) # pclass),
   found |-> \E i \in 1..Len(list) : getdest(list[i]) = pclass]

disconnect(list, pclass) == DisconnectLoop(list, 1, pclass)

\* _signal::disconnect_all: every node's target is told to forget this
\* signal.  A target that has been destroyed is a dangling pointer: the call
\* either finds nothing to erase or faults.
RECURSIVE SignalDisconnectAllLoop(_, _, _, _, _)
SignalDisconnectAllLoop(list, i, senders, self, alive) ==
  IF i > Len(list) THEN {[senders |-> senders, crashed |-> FALSE]}
  ELSE IF getdest(list[i]) \in alive
       THEN SignalDisconnectAllLoop(
              list, i + 1, signal_disconnect(senders, getdest(list[i]), self),
              self, alive)
       ELSE {[senders |-> senders, crashed |-> TRUE]}
            \cup SignalDisconnectAllLoop(list, i + 1, senders, self, alive)

\* A disconnect_all that deletes the nodes without telling their targets.
signal_disconnect_all_untold(list, senders, self, alive) ==
  {[senders |-> senders, crashed |-> FALSE]}

signal_disconnect_all(list, senders, self, alive) ==
  SignalDisconnectAllLoop(list, 1, senders, self, alive)

\* The copy constructor walks the new signal's own m_connected_slots (line
\* 368), which the constructor has just default-constructed, not s's.
RECURSIVE SignalCopyLoop(_, _, _, _)
SignalCopyLoop(list, i, senders, self) ==
  IF i > Len(list) THEN [list |-> list, senders |-> senders]
  ELSE SignalCopyLoop(Append(list, clone(list[i])), i + 1,
                      signal_connect(senders, getdest(list[i]), self), self)

\* _signal(const _signal& s): own is the new signal's m_connected_slots.
signal_copy(own, senders, self) == SignalCopyLoop(own, 1, senders, self)

\* signal::emit: one call per node, in list order.
RECURSIVE EmitLoop(_, _, _, _)
EmitLoop(list, i, arg, alive) ==
  IF i > Len(list) THEN <<>>
  ELSE <<Call(list[i], arg, alive)>> \o EmitLoop(list, i + 1, arg, alive)

\* An emit that walks the list from its back.
emit_backwards(list, arg, alive) ==
  [i \in 1..Len(list) |-> Call(list[Len(list) + 1 - i], arg, alive)]

emit(list, arg, alive) == EmitLoop(list, 1, arg, alive)

(***************************************************************************)
(* has_slots: the loops over m_senders                                     *)
(***************************************************************************)
\* has_slots::disconnect_all: todo are the senders not visited yet.
RECURSIVE HasSlotsDisconnectAllLoop(_, _, _)
HasSlotsDisconnectAllLoop(slots, todo, self) ==
  IF todo = {} THEN {[slots |-> slots, crashed |-> FALSE]}
  ELSE LET sender == Min(todo) IN
       UNION { IF o.crashed
               THEN {[slots |-> [slots EXCEPT ![sender] = o.list],
                      crashed |-> TRUE]}
               ELSE HasSlotsDisconnectAllLoop(
                      [slots EXCEPT ![sender] = o.list], todo \ {sender}, self)
             : o \in slot_disconnect(slots[sender], self) }

has_slots_disconnect_all(slots, senders, self) ==
  HasSlotsDisconnectAllLoop(slots, senders[self], self)

\* has_slots(const has_slots& hs): todo are the senders of hs not visited yet.
RECURSIVE HasSlotsCopyLoop(_, _, _, _, _)
HasSlotsCopyLoop(slots, senders, todo, hs, self) ==
  IF todo = {} THEN [slots |-> slots, senders |-> senders]
  ELSE LET sender == Min(todo) IN
       HasSlotsCopyLoop(
         [slots EXCEPT ![sender] = slot_duplicate(slots[sender], hs, self)],
         signal_connect(senders, self, sender), todo \ {sender}, hs, self)

\* The new object's m_senders starts empty.
has_slots_copy(slots, senders, hs, self) ==
  HasSlotsCopyLoop(slots, [senders EXCEPT ![self] = {}], senders[hs], hs, self)

(***************************************************************************)
(* The lock policies                                                       *)
(***************************************************************************)
Threads == {1, 2}
NoThread == 0

\* An object that has a mutex of its own under multi_threaded_local: a signal
\* or a receiver.
Sig(s) == [kind |-> "signal", id |-> s]
Rcv(r) == [kind |-> "has_slots", id |-> r]

Unlocked == [signal |-> [s \in Sigs |-> NoThread],
             has_slots |-> [r \in Rcvs |-> NoThread]]

\* The mutexes as one value.
Mutexes == [g_mutex |-> g_mutex, m_mutex |-> m_mutex]

\* A pthread mutex that relocks for its owner.
pthread_mutex_lock_recursive(mutex, t) ==
  IF mutex \in {NoThread, t} THEN {t} ELSE {}

\* pthread_mutex_lock on a mutex initialised with default attributes: the
\* owner of the mutex once the call has returned.  The call returns only if
\* the mutex is free; it blocks while any thread, the caller included, holds
\* it.
pthread_mutex_lock(mutex, t) == IF mutex = NoThread THEN {t} ELSE {}

\* mt_policy::lock() called by thread t on object o: the mutexes once the call
\* has returned (no value while it blocks).
lock(mx, t, o) ==
  CASE policy = "single_threaded" -> {mx}
    [] policy = "multi_threaded_global" ->
         {[mx EXCEPT !.g_mutex = owner] :
            owner \in pthread_mutex_lock(mx.g_mutex, t)}
    [] policy = "multi_threaded_local" ->
         {[mx EXCEPT !.m_mutex[o.kind][o.id] = owner] :
            owner \in pthread_mutex_lock(mx.m_mutex[o.kind][o.id], t)}

\* mt_policy::unlock() on object o.
unlock(mx, o) ==
  CASE policy = "single_threaded" -> mx
    [] policy = "multi_threaded_global" -> [mx EXCEPT !.g_mutex = NoThread]
    [] policy = "multi_threaded_local" ->
         [mx EXCEPT !.m_mutex[o.kind][o.id] = NoThread]

\* The thread that holds the mutex lock() on object o takes.
Holder(o) ==
  CASE policy = "single_threaded" -> NoThread
    [] policy = "multi_threaded_global" -> g_mutex
    [] policy = "multi_threaded_local" -> m_mutex[o.kind][o.id]

(***************************************************************************)
(* The program                                                             *)
(***************************************************************************)
NoObject == 0
NoValue == "none"

Op(op, sig, rcv, src, memfun, arg) ==
  [op |-> op, sig |-> sig, rcv |-> rcv, src |-> src, memfun |-> memfun,
   arg |-> arg]

\* A thread's place: the statement it is at (pc), the operation it called
\* and its arguments, the position of its loop over a connection list (it)
\* or the senders its loop over a sender set has visited (seen), the call a
\* handler makes back into the signal (nested), and what the other thread
\* was at when this one's operation took its first lock (during).
Frame(pc, op, sig, rcv, src, memfun, arg) ==
  [pc |-> pc, op |-> op, sig |-> sig, rcv |-> rcv, src |-> src,
   memfun |-> memfun, arg |-> arg, it |-> 0, seen |-> {}, nested |-> NoValue,
   during |-> NoValue]

Idle == Frame("idle", NoValue, NoObject, NoObject, NoObject, NoValue, NoValue)

Init ==
  /\ alive_signals = {}
  /\ alive_slots = {}
  /\ m_connected_slots = [s \in Sigs |-> <<>>]
  /\ m_senders = [r \in Rcvs |-> {}]
  /\ invoked = <<>>
  /\ crashed = FALSE
  /\ last = Op("start", NoObject, NoObject, NoObject, NoValue, NoValue)
  /\ policy = "single_threaded"
  /\ g_mutex = NoThread
  /\ m_mutex = <<>>
  /\ thread = <<>>

\* signal()
SignalNew(s) ==
  /\ ~crashed
  /\ UNCHANGED mt_vars
  /\ s \in Sigs \ alive_signals
  /\ alive_signals' = alive_signals \cup {s}
  /\ m_connected_slots' = [m_connected_slots EXCEPT ![s] = <<>>]
  /\ invoked' = <<>>
  /\ last' = Op("signal", s, NoObject, NoObject, NoValue, NoValue)
  /\ UNCHANGED <<alive_slots, m_senders, crashed>>

\* signal(const signal& s)
SignalCopy(new, s) ==
  /\ ~crashed
  /\ UNCHANGED mt_vars
  /\ s \in alive_signals
  /\ new \in Sigs \ alive_signals
  /\ LET r == signal_copy(<<>>, m_senders, new) IN
       /\ m_connected_slots' = [m_connected_slots EXCEPT ![new] = r.list]
       /\ m_senders' = r.senders
  /\ alive_signals' = alive_signals \cup {new}
  /\ invoked' = <<>>
  /\ last' = Op("signal_copy", new, NoObject, s, NoValue, NoValue)
  /\ UNCHANGED <<alive_slots, crashed>>

\* has_slots()
HasSlotsNew(r) ==
  /\ ~crashed
  /\ UNCHANGED mt_vars
  /\ r \in Rcvs \ alive_slots
  /\ alive_slots' = alive_slots \cup {r}
  /\ m_senders' = [m_senders EXCEPT ![r] = {}]
  /\ invoked' = <<>>
  /\ last' = Op("has_slots", NoObject, r, NoObject, NoValue, NoValue)
  /\ UNCHANGED <<alive_signals, m_connected_slots, crashed>>

\* has_slots(const has_slots& hs)
HasSlotsCopy(new, hs) ==
  /\ ~crashed
  /\ UNCHANGED mt_vars
  /\ hs \in alive_slots
  /\ new \in Rcvs \ alive_slots
  /\ LET r == has_slots_copy(m_connected_slots, m_senders, hs, new) IN
       /\ TotalConns(r.slots) <= MaxConns
       /\ m_connected_slots' = r.slots
       /\ m_senders' = r.senders
  /\ alive_slots' = alive_slots \cup {new}
  /\ invoked' = <<>>
  /\ last' = Op("has_slots_copy", NoObject, new, hs, NoValue, NoValue)
  /\ UNCHANGED <<alive_signals, crashed>>

\* A connect that rejects a (receiver, handler) pair the signal already holds.
ConnectUnique(s, pclass, pmemfun) ==
  /\ ~crashed
  /\ UNCHANGED mt_vars
  /\ s \in alive_signals
  /\ pclass \in alive_slots
  /\ TotalConns(m_connected_slots) < MaxConns
  /\ m_connected_slots' =
       [m_connected_slots EXCEPT ![s] =
          IF \E i \in 1..Len(@) : @[i] = _connection(pclass, pmemfun)
          THEN @ ELSE Append(@, _connection(pclass, pmemfun))]
  /\ m_senders' = signal_connect(m_senders, pclass, s)
  /\ invoked' = <<>>
  /\ last' = Op("connect", s, pclass, NoObject, pmemfun, NoValue)
  /\ UNCHANGED <<alive_signals, alive_slots, crashed>>

\* signal::connect(pclass, pmemfun)
Connect(s, pclass, pmemfun) ==
  /\ ~crashed
  /\ UNCHANGED mt_vars
  /\ s \in alive_signals
  /\ pclass \in alive_slots
  /\ TotalConns(m_connected_slots) < MaxConns
  /\ m_connected_slots' =
       [m_connected_slots EXCEPT ![s] = Append(@, _connection(pclass, pmemfun))]
  /\ m_senders' = signal_connect(m_senders, pclass, s)
  /\ invoked' = <<>>
  /\ last' = Op("connect", s, pclass, NoObject, pmemfun, NoValue)
  /\ UNCHANGED <<alive_signals, alive_slots, crashed>>

\* A disconnect that takes the receiver's first connection out of every
\* signal, as if the signals shared their connections.
DisconnectShared(s, pclass) ==
  /\ ~crashed
  /\ UNCHANGED mt_vars
  /\ s \in alive_signals
  /\ pclass \in alive_slots
  /\ m_connected_slots' =
       [t \in Sigs |-> disconnect(m_connected_slots[t], pclass).list]
  /\ m_senders' = IF disconnect(m_connected_slots[s], pclass).found
                  THEN signal_disconnect(m_senders, pclass, s)
                  ELSE m_senders
  /\ invoked' = <<>>
  /\ last' = Op("disconnect", s, pclass, NoObject, NoValue, NoValue)
  /\ UNCHANGED <<alive_signals, alive_slots, crashed>>

\* _signal::disconnect(pclass)
Disconnect(s, pclass) ==
  /\ ~crashed
  /\ UNCHANGED mt_vars
  /\ s \in alive_signals
  /\ pclass \in alive_slots
  /\ LET r == disconnect(m_connected_slots[s], pclass) IN
       /\ m_connected_slots' = [m_connected_slots EXCEPT ![s] = r.list]
       /\ m_senders' = IF r.found THEN signal_disconnect(m_senders, pclass, s)
                                  ELSE m_senders
  /\ invoked' = <<>>
  /\ last' = Op("disconnect", s, pclass, NoObject, NoValue, NoValue)
  /\ UNCHANGED <<alive_signals, alive_slots, crashed>>

\* _signal::disconnect_all(), and ~_signal() when destroy is TRUE
SignalDisconnectAll(s, destroy) ==
  /\ ~crashed
  /\ UNCHANGED mt_vars
  /\ s \in alive_signals
  /\ \E o \in signal_disconnect_all(m_connected_slots[s], m_senders, s,
                                    alive_slots) :
       /\ m_senders' = o.senders
       /\ crashed' = o.crashed
       /\ m_connected_slots' =
            IF o.crashed THEN m_connected_slots
            ELSE [m_connected_slots EXCEPT ![s] = <<>>]
       /\ alive_signals' =
            IF destroy /\ ~o.crashed THEN alive_signals \ {s} ELSE alive_signals
  /\ invoked' = <<>>
  /\ last' = Op(IF destroy THEN "~signal" ELSE "signal_disconnect_all",
                s, NoObject, NoObject, NoValue, NoValue)
  /\ UNCHANGED alive_slots

\* has_slots::disconnect_all(), and ~has_slots() when destroy is TRUE
HasSlotsDisconnectAll(r, destroy) ==
  /\ ~crashed
  /\ UNCHANGED mt_vars
  /\ r \in alive_slots
  /\ \E o \in has_slots_disconnect_all(m_connected_slots, m_senders, r) :
       /\ m_connected_slots' = o.slots
       /\ crashed' = o.crashed
       /\ m_senders' =
            IF o.crashed THEN m_senders ELSE [m_senders EXCEPT ![r] = {}]
       /\ alive_slots' =
            IF destroy /\ ~o.crashed THEN alive_slots \ {r} ELSE alive_slots
  /\ invoked' = <<>>
  /\ last' = Op(IF destroy THEN "~has_slots" ELSE "has_slots_disconnect_all",
                NoObject, r, NoObject, NoValue, NoValue)
  /\ UNCHANGED alive_signals

\* signal::emit(arg)
Emit(s, arg) ==
  /\ ~crashed
  /\ UNCHANGED mt_vars
  /\ s \in alive_signals
  /\ invoked' = emit(m_connected_slots[s], arg, alive_slots)
  /\ last' = Op("emit", s, NoObject, NoObject, NoValue, arg)
  /\ UNCHANGED <<alive_signals, alive_slots, m_connected_slots, m_senders,
                 crashed>>

Next ==
  \/ \E s \in Sigs : SignalNew(s)
  \/ \E new \in Sigs, s \in Sigs : SignalCopy(new, s)
  \/ \E r \in Rcvs : HasSlotsNew(r)
  \/ \E new \in Rcvs, hs \in Rcvs : HasSlotsCopy(new, hs)
  \/ \E s \in Sigs, pclass \in Rcvs, pmemfun \in MemFuns :
       Connect(s, pclass, pmemfun)
  \/ \E s \in Sigs, pclass \in Rcvs : Disconnect(s, pclass)
  \/ \E s \in Sigs, destroy \in BOOLEAN : SignalDisconnectAll(s, destroy)
  \/ \E r \in Rcvs, destroy \in BOOLEAN : HasSlotsDisconnectAll(r, destroy)
  \/ \E s \in Sigs, arg \in ArgVals : Emit(s, arg)

Spec == Init /\ [][Next]_vars

TypeOK ==
  /\ alive_signals \subseteq Sigs
  /\ alive_slots \subseteq Rcvs
  /\ \A r \in Rcvs : m_senders[r] \subseteq alive_signals
  /\ \A r \in Rcvs \ alive_slots : m_senders[r] = {}
  /\ \A s \in Sigs \ alive_signals : m_connected_slots[s] = <<>>
  /\ TotalConns(m_connected_slots) <= MaxConns
  /\ crashed \in BOOLEAN

(***************************************************************************)
(* A signal and its copy: signal 1 is constructed, signal 2 only as a copy *)
(* of signal 1, and neither is destroyed, so that whenever signal 2 is     *)
(* alive it was constructed as a copy of signal 1.                         *)
(***************************************************************************)
NextCopy ==
  \/ SignalNew(1)
  \/ SignalCopy(2, 1)
  \/ \E r \in Rcvs : HasSlotsNew(r)
  \/ \E s \in Sigs, pclass \in Rcvs, pmemfun \in MemFuns :
       Connect(s, pclass, pmemfun)
  \/ \E s \in Sigs, pclass \in Rcvs : Disconnect(s, pclass)
  \/ \E s \in Sigs : SignalDisconnectAll(s, FALSE)

SpecCopy == Init /\ [][NextCopy]_vars

(***************************************************************************)
(* _signal::slot_duplicate as a function of the list it is called on: the  *)
(* list of signal 1 is drawn from the lists of at most MaxConns nodes.     *)
(***************************************************************************)
Conns == {_connection(r, h) : r \in Rcvs, h \in MemFuns}

Lists == UNION {[1..n -> Conns] : n \in 0..MaxConns}

InitDup ==
  /\ alive_signals = {1}
  /\ alive_slots = Rcvs
  /\ \E list \in Lists :
       /\ m_connected_slots = [s \in Sigs |-> IF s = 1 THEN list ELSE <<>>]
       /\ m_senders =
            [r \in Rcvs |->
               IF \E i \in 1..Len(list) : getdest(list[i]) = r THEN {1}
                                                               ELSE {}]
  /\ invoked = <<>>
  /\ crashed = FALSE
  /\ last = Op("start", NoObject, NoObject, NoObject, NoValue, NoValue)
  /\ policy = "single_threaded"
  /\ g_mutex = NoThread
  /\ m_mutex = <<>>
  /\ thread = <<>>

\* _signal::slot_duplicate(oldtarget, newtarget), called with two different
\* receivers
SlotDuplicate(s, oldtarget, newtarget) ==
  /\ ~crashed
  /\ UNCHANGED mt_vars
  /\ s \in alive_signals
  /\ oldtarget # newtarget
  /\ Len(slot_duplicate(m_connected_slots[s], oldtarget, newtarget))
       <= MaxConns
  /\ m_connected_slots' =
       [m_connected_slots EXCEPT
          ![s] = slot_duplicate(@, oldtarget, newtarget)]
  /\ invoked' = <<>>
  /\ last' = Op("slot_duplicate", s, newtarget, oldtarget, NoValue, NoValue)
  /\ UNCHANGED <<alive_signals, alive_slots, m_senders, crashed>>

NextDup ==
  \E s \in Sigs, oldtarget \in Rcvs, newtarget \in Rcvs :
    SlotDuplicate(s, oldtarget, newtarget)

SpecDup == InitDup /\ [][NextDup]_vars

(***************************************************************************)
(* Two threads under a lock policy.  Thread 1 calls one operation of       *)
(* signal 1 (connect, disconnect, disconnect_all or emit) and thread 2 one *)
(* operation of a receiver (disconnect_all, its destructor, or its copy    *)
(* constructor).  Each step is one lock() call with the blocking it        *)
(* implies, or the access to a collection that follows it.  Under          *)
(* single_threaded there is no second thread.                              *)
(***************************************************************************)
InitThreads ==
  /\ alive_signals = {1}
  /\ alive_slots = {1}
  /\ \E list \in Lists :
       /\ Len(list) <= MaxConns - 2
       /\ \A i \in 1..Len(list) : getdest(list[i]) = 1
       /\ m_connected_slots = [s \in Sigs |-> IF s = 1 THEN list ELSE <<>>]
       /\ m_senders =
            [r \in Rcvs |-> IF r = 1 /\ list # <<>> THEN {1} ELSE {}]
  /\ invoked = <<>>
  /\ crashed = FALSE
  /\ last = Op("start", NoObject, NoObject, NoObject, NoValue, NoValue)
  /\ policy \in {"single_threaded", "multi_threaded_global",
                 "multi_threaded_local"}
  /\ g_mutex = NoThread
  /\ m_mutex = Unlocked
  /\ thread = [t \in Threads |-> Idle]

Other(t) == CHOOSE u \in Threads : u # t

Goto(t, frame) == thread' = [thread EXCEPT ![t] = frame]

SetMutexes(mx) ==
  /\ g_mutex' = mx.g_mutex
  /\ m_mutex' = mx.m_mutex

\* lock_block lock(this) in an operation of object o: the step waits until
\* lock() returns.
LockBlock(t, o) == \E mx \in lock(Mutexes, t, o) : SetMutexes(mx)

\* Another thread is walking receiver r's sender set without r's mutex.
Races(t, r) ==
  \E u \in Threads \ {t} :
    /\ thread[u].pc \in {"copy_loop", "slot_duplicate"}
    /\ thread[u].src = r
    /\ Holder(Rcv(r)) # u

\* The outcomes of a step that has undefined behaviour when ub holds.
Undefined(ub) == crashed' \in (IF ub THEN BOOLEAN ELSE {FALSE})

\* signal::connect: lock_block lock(this)
ConnectLock(t, s, pclass, pmemfun) ==
  /\ ~crashed
  /\ thread[t].pc = "idle"
  /\ s \in alive_signals
  /\ pclass \in alive_slots
  /\ TotalConns(m_connected_slots) < MaxConns
  /\ LockBlock(t, Sig(s))
  /\ Goto(t, Frame("push_back", "connect", s, pclass, NoObject, pmemfun,
                   NoValue))
  /\ UNCHANGED <<alive_signals, alive_slots, m_connected_slots, m_senders,
                 invoked, crashed, last, policy>>

\* signal::connect: m_connected_slots.push_back(conn)
ConnectPushBack(t) ==
  /\ ~crashed
  /\ thread[t].pc = "push_back"
  /\ m_connected_slots' =
       [m_connected_slots EXCEPT
          ![thread[t].sig] =
             Append(@, _connection(thread[t].rcv, thread[t].memfun))]
  /\ Goto(t, [thread[t] EXCEPT !.pc = "signal_connect"])
  /\ UNCHANGED <<alive_signals, alive_slots, m_senders, invoked, crashed,
                 last, policy, g_mutex, m_mutex>>

\* has_slots::signal_connect: lock_block lock(this).  A receiver destroyed
\* in the meantime is freed storage: the call faults or has no effect, and
\* connect returns.
SignalConnectLock(t) ==
  /\ ~crashed
  /\ thread[t].pc = "signal_connect"
  /\ IF thread[t].rcv \in alive_slots
     THEN /\ LockBlock(t, Rcv(thread[t].rcv))
          /\ Goto(t, [thread[t] EXCEPT !.pc = "insert"])
          /\ UNCHANGED crashed
     ELSE /\ Undefined(TRUE)
          /\ SetMutexes(unlock(Mutexes, Sig(thread[t].sig)))
          /\ Goto(t, [thread[t] EXCEPT !.pc = "done"])
  /\ UNCHANGED <<alive_signals, alive_slots, m_connected_slots, m_senders,
                 invoked, last, policy>>

\* has_slots::signal_connect: m_senders.insert(sender), then both lock_blocks
\* end.
SignalConnectInsert(t) ==
  /\ ~crashed
  /\ thread[t].pc = "insert"
  /\ LET r == thread[t].rcv IN
       /\ Undefined(r \notin alive_slots \/ Races(t, r))
       /\ m_senders' = IF r \in alive_slots
                       THEN signal_connect(m_senders, r, thread[t].sig)
                       ELSE m_senders
       /\ SetMutexes(unlock(unlock(Mutexes, Rcv(r)), Sig(thread[t].sig)))
  /\ Goto(t, [thread[t] EXCEPT !.pc = "done"])
  /\ UNCHANGED <<alive_signals, alive_slots, m_connected_slots, invoked,
                 last, policy>>

\* _signal::disconnect: lock_block lock(this)
DisconnectLock(t, s, pclass) ==
  /\ ~crashed
  /\ thread[t].pc = "idle"
  /\ s \in alive_signals
  /\ pclass \in alive_slots
  /\ LockBlock(t, Sig(s))
  /\ Goto(t, Frame("remove", "disconnect", s, pclass, NoObject, NoValue,
                   NoValue))
  /\ UNCHANGED <<alive_signals, alive_slots, m_connected_slots, m_senders,
                 invoked, crashed, last, policy>>

\* _signal::disconnect: the loop to the first node whose target is pclass
\* and its removal; without such a node the operation returns.
DisconnectRemove(t) ==
  /\ ~crashed
  /\ thread[t].pc = "remove"
  /\ LET r == disconnect(m_connected_slots[thread[t].sig], thread[t].rcv) IN
       /\ m_connected_slots' =
            [m_connected_slots EXCEPT ![thread[t].sig] = r.list]
       /\ IF r.found
          THEN /\ Goto(t, [thread[t] EXCEPT !.pc = "signal_disconnect"])
               /\ UNCHANGED <<g_mutex, m_mutex>>
          ELSE /\ Goto(t, [thread[t] EXCEPT !.pc = "done"])
               /\ SetMutexes(unlock(Mutexes, Sig(thread[t].sig)))
  /\ UNCHANGED <<alive_signals, alive_slots, m_senders, invoked, crashed,
                 last, policy>>

\* Where a signal's operation goes on after signal_disconnect has returned:
\* disconnect returns, disconnect_all takes the next node.
AfterSignalDisconnect(t, mx) ==
  IF thread[t].op = "disconnect"
  THEN /\ Goto(t, [thread[t] EXCEPT !.pc = "done"])
       /\ SetMutexes(unlock(mx, Sig(thread[t].sig)))
  ELSE /\ Goto(t, [thread[t] EXCEPT !.pc = "sda_loop", !.it = @ + 1])
       /\ SetMutexes(mx)

\* has_slots::signal_disconnect: lock_block lock(this), called by disconnect
\* and by _signal::disconnect_all.  A destroyed receiver is freed storage: the
\* call faults or has no effect.
SignalDisconnectLock(t) ==
  /\ ~crashed
  /\ thread[t].pc = "signal_disconnect"
  /\ IF thread[t].rcv \in alive_slots
     THEN /\ LockBlock(t, Rcv(thread[t].rcv))
          /\ Goto(t, [thread[t] EXCEPT !.pc = "erase"])
          /\ UNCHANGED crashed
     ELSE /\ Undefined(TRUE)
          /\ AfterSignalDisconnect(t, Mutexes)
  /\ UNCHANGED <<alive_signals, alive_slots, m_connected_slots, m_senders,
                 invoked, last, policy>>

\* has_slots::signal_disconnect: m_senders.erase(sender)
SignalDisconnectErase(t) ==
  /\ ~crashed
  /\ thread[t].pc = "erase"
  /\ LET r == thread[t].rcv IN
       /\ Undefined(r \notin alive_slots \/ Races(t, r))
       /\ m_senders' = IF r \in alive_slots
                       THEN signal_disconnect(m_senders, r, thread[t].sig)
                       ELSE m_senders
       /\ AfterSignalDisconnect(t, unlock(Mutexes, Rcv(r)))
  /\ UNCHANGED <<alive_signals, alive_slots, m_connected_slots, invoked,
                 last, policy>>

\* _signal::disconnect_all: lock_block lock(this)
SignalDisconnectAllLock(t, s) ==
  /\ ~crashed
  /\ thread[t].pc = "idle"
  /\ s \in alive_signals
  /\ LockBlock(t, Sig(s))
  /\ Goto(t, [Frame("sda_loop", "signal_disconnect_all", s, NoObject,
                    NoObject, NoValue, NoValue) EXCEPT !.it = 1])
  /\ UNCHANGED <<alive_signals, alive_slots, m_connected_slots, m_senders,
                 invoked, crashed, last, policy>>

\* _signal::disconnect_all: the loop takes the node at it and calls its
\* target's signal_disconnect, or, at end(), erases the list and returns.
SignalDisconnectAllNext(t) ==
  /\ ~crashed
  /\ thread[t].pc = "sda_loop"
  /\ LET list == m_connected_slots[thread[t].sig] IN
       IF thread[t].it <= Len(list)
       THEN /\ Goto(t, [thread[t] EXCEPT !.pc = "signal_disconnect",
                                         !.rcv = getdest(list[thread[t].it])])
            /\ UNCHANGED <<m_connected_slots, g_mutex, m_mutex>>
       ELSE /\ m_connected_slots' =
                 [m_connected_slots EXCEPT ![thread[t].sig] = <<>>]
            /\ Goto(t, [thread[t] EXCEPT !.pc = "done"])
            /\ SetMutexes(unlock(Mutexes, Sig(thread[t].sig)))
  /\ UNCHANGED <<alive_signals, alive_slots, m_senders, invoked, crashed,
                 last, policy>>

\* signal::emit: lock_block lock(this)
EmitLock(t, s, arg) ==
  /\ ~crashed
  /\ thread[t].pc = "idle"
  /\ s \in alive_signals
  /\ LockBlock(t, Sig(s))
  /\ Goto(t, [Frame("emit_loop", "emit", s, NoObject, NoObject, NoValue, arg)
                EXCEPT !.it = 1])
  /\ UNCHANGED <<alive_signals, alive_slots, m_connected_slots, m_senders,
                 invoked, crashed, last, policy>>

\* signal::emit: slot->emit(args...) calls the handler of the node at it.
\* The handler returns, or it calls connect, disconnect or emit of the
\* emitting signal with its own receiver.
EmitCall(t) ==
  /\ ~crashed
  /\ thread[t].pc = "emit_loop"
  /\ thread[t].it <= Len(m_connected_slots[thread[t].sig])
  /\ LET slot == m_connected_slots[thread[t].sig][thread[t].it] IN
       \/ Goto(t, [thread[t] EXCEPT !.it = @ + 1])
       \/ \E nested \in {"connect", "disconnect", "emit"} :
            /\ getdest(slot) \in alive_slots
            /\ nested = "connect" =>
                 TotalConns(m_connected_slots) < MaxConns
            /\ Goto(t, [thread[t] EXCEPT !.pc = "reenter",
                                         !.nested = nested,
                                         !.rcv = getdest(slot),
                                         !.memfun = slot.m_pmemfun])
  /\ UNCHANGED <<alive_signals, alive_slots, m_connected_slots, m_senders,
                 invoked, crashed, last, policy, g_mutex, m_mutex>>

\* The call a handler makes back into the emitting signal: its lock_block
\* lock(this), then the whole of connect, disconnect or emit, after which the
\* handler returns and the loop of the outer emit increments its iterator.
\* A disconnect that erased the node the outer loop is at leaves that
\* iterator pointing to a freed node.
EmitNested(t) ==
  /\ ~crashed
  /\ thread[t].pc = "reenter"
  /\ \E mx \in lock(Mutexes, t, Sig(thread[t].sig)) :
       SetMutexes(unlock(mx, Sig(thread[t].sig)))
  /\ LET s == thread[t].sig
         r == thread[t].rcv
         list == m_connected_slots[s]
     IN  CASE thread[t].nested = "connect" ->
                /\ m_connected_slots' =
                     [m_connected_slots EXCEPT
                        ![s] = Append(@, _connection(r, thread[t].memfun))]
                /\ m_senders' = signal_connect(m_senders, r, s)
                /\ Goto(t, [thread[t] EXCEPT !.pc = "emit_loop",
                                             !.it = @ + 1])
                /\ UNCHANGED crashed
           [] thread[t].nested = "disconnect" ->
                /\ m_connected_slots' =
                     [m_connected_slots EXCEPT
                        ![s] = disconnect(list, r).list]
                /\ m_senders' = signal_disconnect(m_senders, r, s)
                /\ Goto(t, [thread[t] EXCEPT !.pc = "emit_loop"])
                /\ Undefined(\A i \in 1..(thread[t].it - 1) :
                               getdest(list[i]) # r)
           [] thread[t].nested = "emit" ->
                /\ Goto(t, [thread[t] EXCEPT !.pc = "emit_loop",
                                             !.it = @ + 1])
                /\ UNCHANGED <<m_connected_slots, m_senders, crashed>>
  /\ UNCHANGED <<alive_signals, alive_slots, invoked, last, policy>>

\* signal::emit: the loop is at end() and the lock_block ends.
EmitEnd(t) ==
  /\ ~crashed
  /\ thread[t].pc = "emit_loop"
  /\ thread[t].it > Len(m_connected_slots[thread[t].sig])
  /\ SetMutexes(unlock(Mutexes, Sig(thread[t].sig)))
  /\ Goto(t, [thread[t] EXCEPT !.pc = "done"])
  /\ UNCHANGED <<alive_signals, alive_slots, m_connected_slots, m_senders,
                 invoked, crashed, last, policy>>

\* has_slots::disconnect_all, called directly or by ~has_slots (destroy):
\* lock_block lock(this)
HasSlotsDisconnectAllLock(t, r, destroy) ==
  /\ ~crashed
  /\ thread[t].pc = "idle"
  /\ policy # "single_threaded"
  /\ r \in alive_slots
  /\ LockBlock(t, Rcv(r))
  /\ Goto(t, [Frame("hda_loop",
                    IF destroy THEN "~has_slots"
                               ELSE "has_slots_disconnect_all",
                    NoObject, r, NoObject, NoValue, NoValue)
                EXCEPT !.during = thread[Other(t)].pc])
  /\ UNCHANGED <<alive_signals, alive_slots, m_connected_slots, m_senders,
                 invoked, crashed, last, policy>>

\* A slot_disconnect that only tries the signal's lock and leaves the signal
\* alone when another thread holds it.
SlotDisconnectTryLock(t) ==
  /\ ~crashed
  /\ thread[t].pc = "hda_loop"
  /\ m_senders[thread[t].rcv] \ thread[t].seen # {}
  /\ LET sender == Min(m_senders[thread[t].rcv] \ thread[t].seen) IN
       IF lock(Mutexes, t, Sig(sender)) # {}
       THEN /\ LockBlock(t, Sig(sender))
            /\ Goto(t, [thread[t] EXCEPT !.pc = "slot_disconnect",
                                         !.sig = sender])
       ELSE /\ Goto(t, [thread[t] EXCEPT !.seen = @ \cup {sender}])
            /\ UNCHANGED <<g_mutex, m_mutex>>
  /\ UNCHANGED <<alive_signals, alive_slots, m_connected_slots, m_senders,
                 invoked, crashed, last, policy>>

\* has_slots::disconnect_all: the loop takes the next sender and calls its
\* slot_disconnect, whose first statement is lock_block lock(this).
SlotDisconnectLock(t) ==
  /\ ~crashed
  /\ thread[t].pc = "hda_loop"
  /\ m_senders[thread[t].rcv] \ thread[t].seen # {}
  /\ LET sender == Min(m_senders[thread[t].rcv] \ thread[t].seen) IN
       /\ LockBlock(t, Sig(sender))
       /\ Goto(t, [thread[t] EXCEPT !.pc = "slot_disconnect",
                                    !.sig = sender])
  /\ UNCHANGED <<alive_signals, alive_slots, m_connected_slots, m_senders,
                 invoked, crashed, last, policy>>

\* _signal::slot_disconnect: the loop that erases the nodes whose target is
\* the receiver
SlotDisconnectErase(t) ==
  /\ ~crashed
  /\ thread[t].pc = "slot_disconnect"
  /\ \E o \in slot_disconnect(m_connected_slots[thread[t].sig],
                              thread[t].rcv) :
       /\ m_connected_slots' =
            [m_connected_slots EXCEPT ![thread[t].sig] = o.list]
       /\ crashed' = o.crashed
  /\ SetMutexes(unlock(Mutexes, Sig(thread[t].sig)))
  /\ Goto(t, [thread[t] EXCEPT !.pc = "hda_loop",
                               !.seen = @ \cup {thread[t].sig}])
  /\ UNCHANGED <<alive_signals, alive_slots, m_senders, invoked, last,
                 policy>>

\* has_slots::disconnect_all: after the loop, m_senders.erase(begin, end) and
\* the lock_block ends.
HasSlotsDisconnectAllEnd(t) ==
  /\ ~crashed
  /\ thread[t].pc = "hda_loop"
  /\ m_senders[thread[t].rcv] \ thread[t].seen = {}
  /\ m_senders' = [m_senders EXCEPT ![thread[t].rcv] = {}]
  /\ SetMutexes(unlock(Mutexes, Rcv(thread[t].rcv)))
  /\ Goto(t, [thread[t] EXCEPT
                !.pc = IF thread[t].op = "~has_slots" THEN "dtor"
                                                      ELSE "done"])
  /\ UNCHANGED <<alive_signals, alive_slots, m_connected_slots, invoked,
                 crashed, last, policy>>

\* ~has_slots after its disconnect_all: the members and the mutex are
\* destroyed.  Destroying a mutex a thread holds is undefined.
HasSlotsDtor(t) ==
  /\ ~crashed
  /\ thread[t].pc = "dtor"
  /\ Undefined(Holder(Rcv(thread[t].rcv)) \notin {NoThread, t})
  /\ alive_slots' = alive_slots \ {thread[t].rcv}
  /\ m_senders' = [m_senders EXCEPT ![thread[t].rcv] = {}]
  /\ Goto(t, [thread[t] EXCEPT !.pc = "done"])
  /\ UNCHANGED <<alive_signals, m_connected_slots, invoked, last, policy,
                 g_mutex, m_mutex>>

\* has_slots(const has_slots& hs): lock_block lock(this), the mutex of the
\* object under construction
HasSlotsCopyLock(t, new, hs) ==
  /\ ~crashed
  /\ thread[t].pc = "idle"
  /\ policy # "single_threaded"
  /\ hs \in alive_slots
  /\ new \in Rcvs \ alive_slots
  /\ TotalConns(has_slots_copy(m_connected_slots, m_senders, hs, new).slots)
       <= MaxConns
  /\ LockBlock(t, Rcv(new))
  /\ Goto(t, Frame("copy_loop", "has_slots_copy", NoObject, new, hs, NoValue,
                   NoValue))
  /\ UNCHANGED <<alive_signals, alive_slots, m_connected_slots, m_senders,
                 invoked, crashed, last, policy>>

\* has_slots(const has_slots& hs): the loop over hs.m_senders takes the next
\* sender and calls its slot_duplicate, whose first statement is lock_block
\* lock(this).
SlotDuplicateLock(t) ==
  /\ ~crashed
  /\ thread[t].pc = "copy_loop"
  /\ m_senders[thread[t].src] \ thread[t].seen # {}
  /\ LET sender == Min(m_senders[thread[t].src] \ thread[t].seen) IN
       /\ LockBlock(t, Sig(sender))
       /\ Goto(t, [thread[t] EXCEPT !.pc = "slot_duplicate",
                                    !.sig = sender])
  /\ UNCHANGED <<alive_signals, alive_slots, m_connected_slots, m_senders,
                 invoked, crashed, last, policy>>

\* _signal::slot_duplicate: the loop that appends the duplicates, then
\* m_senders.insert(sender) in the copy constructor
SlotDuplicateAppend(t) ==
  /\ ~crashed
  /\ thread[t].pc = "slot_duplicate"
  /\ m_connected_slots' =
       [m_connected_slots EXCEPT
          ![thread[t].sig] = slot_duplicate(@, thread[t].src, thread[t].rcv)]
  /\ m_senders' = [m_senders EXCEPT ![thread[t].rcv] = @ \cup {thread[t].sig}]
  /\ SetMutexes(unlock(Mutexes, Sig(thread[t].sig)))
  /\ Goto(t, [thread[t] EXCEPT !.pc = "copy_loop",
                               !.seen = @ \cup {thread[t].sig}])
  /\ UNCHANGED <<alive_signals, alive_slots, invoked, crashed, last, policy>>

\* has_slots(const has_slots& hs): the loop is at end(), the lock_block ends
\* and the new receiver exists.
HasSlotsCopyEnd(t) ==
  /\ ~crashed
  /\ thread[t].pc = "copy_loop"
  /\ m_senders[thread[t].src] \ thread[t].seen = {}
  /\ alive_slots' = alive_slots \cup {thread[t].rcv}
  /\ SetMutexes(unlock(Mutexes, Rcv(thread[t].rcv)))
  /\ Goto(t, [thread[t] EXCEPT !.pc = "done"])
  /\ UNCHANGED <<alive_signals, m_connected_slots, m_senders, invoked,
                 crashed, last, policy>>

\* The statements of the thread that uses the signal.
SignalThread(t) ==
  \/ \E s \in Sigs, pclass \in Rcvs, pmemfun \in MemFuns :
       ConnectLock(t, s, pclass, pmemfun)
  \/ ConnectPushBack(t)
  \/ SignalConnectLock(t)
  \/ SignalConnectInsert(t)
  \/ \E s \in Sigs, pclass \in Rcvs : DisconnectLock(t, s, pclass)
  \/ DisconnectRemove(t)
  \/ SignalDisconnectLock(t)
  \/ SignalDisconnectErase(t)
  \/ \E s \in Sigs : SignalDisconnectAllLock(t, s)
  \/ SignalDisconnectAllNext(t)
  \/ \E s \in Sigs, arg \in ArgVals : EmitLock(t, s, arg)
  \/ EmitCall(t)
  \/ EmitNested(t)
  \/ EmitEnd(t)

\* The statements of the thread that uses the receivers.
ReceiverThread(t) ==
  \/ \E r \in Rcvs, destroy \in BOOLEAN :
       HasSlotsDisconnectAllLock(t, r, destroy)
  \/ SlotDisconnectLock(t)
  \/ SlotDisconnectErase(t)
  \/ HasSlotsDisconnectAllEnd(t)
  \/ HasSlotsDtor(t)
  \/ \E new \in Rcvs, hs \in Rcvs : HasSlotsCopyLock(t, new, hs)
  \/ SlotDuplicateLock(t)
  \/ SlotDuplicateAppend(t)
  \/ HasSlotsCopyEnd(t)

NextThreads ==
  \/ SignalThread(1)
  \/ ReceiverThread(2)

SpecThreads == InitThreads /\ [][NextThreads]_vars

(***************************************************************************)
(* The claims                                                              *)
(***************************************************************************)
\* list holds a connection whose target is r.
HasConnTo(list, r) == \E i \in 1..Len(list) : list[i].m_pobject = r

\* The connections of list whose target is r, and the others, in list order.
ConnsTo(list, r) == SelectSeq(list, LAMBDA c : c.m_pobject = r)
ConnsNotTo(list, r) == SelectSeq(list, LAMBDA c : c.m_pobject # r)

\* The connections of list with r as their target instead.
Retargeted(list, r) ==
  [i \in 1..Len(list) |-> [m_pobject |-> r, m_pmemfun |-> list[i].m_pmemfun]]

\* C1: after any sequence of completed operations, a signal S is in a
\* receiver R's sender set exactly when S holds a connection whose target is R.
C1_BidirectionalConsistency ==
  ~crashed =>
    \A s \in alive_signals, r \in alive_slots :
      (s \in m_senders[r]) <=> HasConnTo(m_connected_slots[s], r)

\* C2: no signal holds a connection whose target has been destroyed, and no
\* emit calls a handler on a destroyed receiver.
C2_NoDanglingCallback ==
  ~crashed =>
    /\ \A s \in alive_signals : \A i \in 1..Len(m_connected_slots[s]) :
         m_connected_slots[s][i].m_pobject \in alive_slots
    /\ \A i \in 1..Len(invoked) : invoked[i].live

\* C3: R.disconnect_all(), and R's destruction, leave R's sender set empty
\* and leave every signal that was in it with exactly its connections to
\* other receivers, in their order.
C3_ReceiverTeardown ==
  [][last'.op \in {"has_slots_disconnect_all", "~has_slots"} =>
       LET r == last'.rcv IN
         /\ m_senders'[r] = {}
         /\ \A s \in m_senders[r] :
              m_connected_slots'[s] = ConnsNotTo(m_connected_slots[s], r)]_vars

\* C4: S.disconnect_all(), and S's destruction, leave S with no connection
\* and in no receiver's sender set, and change no other entry of a sender set.
C4_SignalTeardown ==
  [][last'.op \in {"signal_disconnect_all", "~signal"} =>
       LET s == last'.sig IN
         /\ m_connected_slots'[s] = <<>>
         /\ \A r \in Rcvs : m_senders'[r] = m_senders[r] \ {s}]_vars

\* C5: after S.disconnect(R), S is in R's sender set exactly when S still
\* holds a connection whose target is R.
C5_DisconnectKeepsSender ==
  last.op = "disconnect" =>
    ((last.sig \in m_senders[last.rcv])
       <=> HasConnTo(m_connected_slots[last.sig], last.rcv))

\* C6: S.disconnect(R) removes the first connection of S whose target is R
\* and nothing else: the connections before it and after it, later ones to R
\* among them, keep their order, and no other signal changes.
C6_SingleRemoval ==
  [][last'.op = "disconnect" =>
       LET s == last'.sig
           r == last'.rcv
           old == m_connected_slots[s]
           new == m_connected_slots'[s]
       IN  /\ \A t \in Sigs \ {s} :
                m_connected_slots'[t] = m_connected_slots[t]
           /\ HasConnTo(old, r) =>
                \E k \in 1..Len(old) :
                  /\ old[k].m_pobject = r
                  /\ \A j \in 1..(k - 1) : old[j].m_pobject # r
                  /\ Len(new) = Len(old) - 1
                  /\ \A j \in 1..Len(new) :
                       new[j] = IF j < k THEN old[j] ELSE old[j + 1]]_vars

C6_Witness ==
  /\ last.op = "disconnect"
  /\ Len(m_connected_slots[last.sig]) >= 2
  /\ HasConnTo(m_connected_slots[last.sig], last.rcv)
  /\ \E i \in 1..Len(m_connected_slots[last.sig]) :
       m_connected_slots[last.sig][i].m_pobject # last.rcv

\* C7: S.emit(a) calls the handler of every connection of S once with a, in
\* the order of the list, which is the order in which connect appended them,
\* and no other operation calls a handler.
C7_EmitOrder ==
  [][/\ last'.op = "emit" =>
          LET list == m_connected_slots[last'.sig] IN
            /\ m_connected_slots' = m_connected_slots
            /\ Len(invoked') = Len(list)
            /\ \A i \in 1..Len(list) :
                 /\ invoked'[i].dest = list[i].m_pobject
                 /\ invoked'[i].memfun = list[i].m_pmemfun
                 /\ invoked'[i].arg = last'.arg
     /\ last'.op = "connect" =>
          m_connected_slots'[last'.sig] =
            Append(m_connected_slots[last'.sig],
                   [m_pobject |-> last'.rcv, m_pmemfun |-> last'.memfun])
     /\ last'.op # "emit" => invoked' = <<>>]_vars

C7_Witness ==
  /\ last.op = "emit"
  /\ Len(invoked) >= 3
  /\ invoked[1].dest # invoked[2].dest
  /\ invoked[2].memfun # invoked[3].memfun

\* C8: a signal constructed as a copy of S holds a clone of every connection
\* of S, in S's order, and is in the sender set of every target.
C8_SignalCopy ==
  last.op = "signal_copy" =>
    /\ m_connected_slots[last.sig] = m_connected_slots[last.src]
    /\ \A r \in alive_slots :
         HasConnTo(m_connected_slots[last.src], r) => last.sig \in m_senders[r]
    /\ \A a \in ArgVals :
         emit(m_connected_slots[last.sig], a, alive_slots)
           = emit(m_connected_slots[last.src], a, alive_slots)

\* C9: constructing R2 as a copy of R appends to every signal S of R's sender
\* set one connection to R2 for each connection of S to R, with its handler
\* and in the same order, and puts S in R2's sender set, so that S.emit then
\* calls the handler on R and on R2.
C9_ReceiverCopy ==
  [][last'.op = "has_slots_copy" =>
       LET new == last'.rcv
           hs == last'.src
       IN  /\ m_senders'[new] = m_senders[hs]
           /\ \A s \in m_senders[hs] :
                /\ m_connected_slots'[s] =
                     m_connected_slots[s]
                       \o Retargeted(ConnsTo(m_connected_slots[s], hs), new)
                /\ \A a \in ArgVals :
                   \A i \in 1..Len(m_connected_slots[s]) :
                     m_connected_slots[s][i].m_pobject = hs =>
                       \A d \in {hs, new} :
                         \E j \in 1..Len(m_connected_slots'[s]) :
                           LET c == emit(m_connected_slots'[s], a,
                                         alive_slots')[j]
                           IN  /\ c.dest = d
                               /\ c.memfun = m_connected_slots[s][i].m_pmemfun
                               /\ c.arg = a
                               /\ c.live]_vars

C9_Witness ==
  /\ last.op = "has_slots_copy"
  /\ \E s \in m_senders[last.rcv] :
       LET to_old == ConnsTo(m_connected_slots[s], last.src)
           to_new == ConnsTo(m_connected_slots[s], last.rcv)
       IN  /\ Len(to_old) = 2
           /\ to_old[1].m_pmemfun # to_old[2].m_pmemfun
           /\ to_new = Retargeted(to_old, last.rcv)

\* C10: constructing R2 as a copy of R leaves R's sender set as it was, leaves
\* every connection that existed where it was, and changes no signal that was
\* not in R's sender set.
C10_ReceiverCopyFrame ==
  [][last'.op = "has_slots_copy" =>
       LET hs == last'.src IN
         /\ m_senders'[hs] = m_senders[hs]
         /\ \A s \in Sigs :
              /\ Len(m_connected_slots'[s]) >= Len(m_connected_slots[s])
              /\ SubSeq(m_connected_slots'[s], 1, Len(m_connected_slots[s]))
                   = m_connected_slots[s]
         /\ \A s \in Sigs \ m_senders[hs] :
              m_connected_slots'[s] = m_connected_slots[s]]_vars

C10_Witness ==
  /\ last.op = "has_slots_copy"
  /\ m_senders[last.src] # {}
  /\ \E s \in alive_signals \ m_senders[last.src] :
       HasConnTo(m_connected_slots[s], last.src)
  /\ \E s \in m_senders[last.src] :
       /\ m_connected_slots[s][1].m_pobject = last.src
       /\ Len(m_connected_slots[s]) >= 2

\* The number of connections of list that bind handler h to receiver r.
CountConn(list, r, h) ==
  Len(SelectSeq(list, LAMBDA c : c.m_pobject = r /\ c.m_pmemfun = h))

\* The number of calls of handler h on receiver r in a sequence of calls.
CountCall(calls, r, h) ==
  Len(SelectSeq(calls, LAMBDA c : c.dest = r /\ c.memfun = h))

\* C12: connect(S, R, h) appends one connection to the end of S's list
\* whatever S holds already, so S then holds one more (R, h) connection and
\* an emit calls h on R once for each of them, and R's sender set holds S.
C12_NoDuplicateSuppression ==
  [][last'.op = "connect" =>
       LET s == last'.sig
           r == last'.rcv
           h == last'.memfun
           old == m_connected_slots[s]
           new == m_connected_slots'[s]
       IN  /\ new = Append(old, [m_pobject |-> r, m_pmemfun |-> h])
           /\ \A a \in ArgVals :
                CountCall(emit(new, a, alive_slots'), r, h)
                  = CountConn(old, r, h) + 1
           /\ m_senders'[r] = m_senders[r] \cup {s}]_vars

\* A third connect of the same handler of the same receiver, which the
\* receiver's sender set lists once.
C12_Witness ==
  /\ last.op = "connect"
  /\ CountConn(m_connected_slots[last.sig], last.rcv, last.memfun) = 3
  /\ m_senders[last.rcv] = {last.sig}

\* C13: a disconnect_all() that follows a disconnect_all() of the same signal
\* or receiver changes no connection list and no sender set and does not
\* fault, and so does S.disconnect(R) when S holds no connection to R.
C13_IdempotentTeardown ==
  [][/\ (/\ last.op = "signal_disconnect_all"
         /\ last'.op = "signal_disconnect_all"
         /\ last'.sig = last.sig)
          => /\ ~crashed'
             /\ UNCHANGED <<m_connected_slots, m_senders>>
     /\ (/\ last.op = "has_slots_disconnect_all"
         /\ last'.op = "has_slots_disconnect_all"
         /\ last'.rcv = last.rcv)
          => /\ ~crashed'
             /\ UNCHANGED <<m_connected_slots, m_senders>>
     /\ (/\ last'.op = "disconnect"
         /\ ~HasConnTo(m_connected_slots[last'.sig], last'.rcv))
          => UNCHANGED <<m_connected_slots, m_senders>>]_vars

\* A disconnect of a receiver the signal holds no connection to has acted on
\* a signal that holds connections and a receiver that has senders.
C13_Witness ==
  /\ last.op = "disconnect"
  /\ ~crashed
  /\ ~HasConnTo(m_connected_slots[last.sig], last.rcv)
  /\ last.sig \notin m_senders[last.rcv]
  /\ m_senders[last.rcv] # {}
  /\ Len(m_connected_slots[last.sig]) >= 2

\* C19: after any sequence of completed operations, a signal in a receiver's
\* sender set holds a connection whose target is that receiver.
C19_SendersNeverOverApproximate ==
  ~crashed =>
    \A s \in Sigs, r \in Rcvs :
      s \in m_senders[r] => HasConnTo(m_connected_slots[s], r)

\* The converse fails for one signal while this half holds for another.
C19_Witness ==
  /\ ~crashed
  /\ \E s \in alive_signals, r \in alive_slots :
       HasConnTo(m_connected_slots[s], r) /\ s \notin m_senders[r]
  /\ \E s \in alive_signals, r \in alive_slots : s \in m_senders[r]

\* C11: once signal 2 exists as a copy of signal 1, a connect, disconnect
\* or disconnect_all on either of them leaves the other's connection list as
\* it was.
C11_SignalCopyIndependence ==
  [][(/\ 2 \in alive_signals
      /\ last'.op \in {"connect", "disconnect", "signal_disconnect_all"})
       => \A t \in Sigs \ {last'.sig} :
            m_connected_slots'[t] = m_connected_slots[t]]_vars

\* A disconnect took the first of several connections to R out of the
\* original (those left show that one was removed) while the copy holds a
\* connection to R.
C11_Witness ==
  /\ 2 \in alive_signals
  /\ last.op = "disconnect"
  /\ last.sig = 1
  /\ HasConnTo(m_connected_slots[last.sig], last.rcv)
  /\ \E t \in Sigs \ {last.sig} : HasConnTo(m_connected_slots[t], last.rcv)

\* C20: slot_duplicate(old, new) with old # new ends after visiting every
\* node of the list and every node it appended, and leaves the list followed
\* by one duplicate, bound to new, of each of the k nodes that targeted old:
\* no appended node is duplicated again.
C20_SlotDuplicateTerminates ==
  [][last'.op = "slot_duplicate" =>
       LET old == m_connected_slots[last'.sig]
           new == m_connected_slots'[last'.sig]
           k == Len(ConnsTo(old, last'.src))
       IN  /\ Len(new) = Len(old) + k
           /\ SubSeq(new, 1, Len(old)) = old
           /\ SubSeq(new, Len(old) + 1, Len(new))
                = Retargeted(ConnsTo(old, last'.src), last'.rcv)
           /\ Len(ConnsTo(new, last'.src)) = k
           /\ SlotDuplicateVisits(old, 1, last'.src, last'.rcv)
                = Len(old) + k]_vars

\* Two nodes with different handlers were duplicated.
C20_Witness ==
  /\ last.op = "slot_duplicate"
  /\ Len(m_connected_slots[last.sig]) = 4
  /\ Len(ConnsTo(m_connected_slots[last.sig], last.src)) = 2
  /\ Len(ConnsTo(m_connected_slots[last.sig], last.rcv)) = 2
  /\ m_connected_slots[last.sig][1].m_pobject = last.src
  /\ m_connected_slots[last.sig][3].m_pmemfun
       # m_connected_slots[last.sig][4].m_pmemfun

\* The object whose lock() thread t's next statement calls inside its
\* operation, if that statement is a lock_block.
WaitsFor(t) ==
  LET f == thread[t] IN
    CASE f.pc \in {"signal_connect", "signal_disconnect"}
           /\ f.rcv \in alive_slots -> {Rcv(f.rcv)}
      [] f.pc = "hda_loop" /\ m_senders[f.rcv] \ f.seen # {} ->
           {Sig(Min(m_senders[f.rcv] \ f.seen))}
      [] f.pc = "copy_loop" /\ m_senders[f.src] \ f.seen # {} ->
           {Sig(Min(m_senders[f.src] \ f.seen))}
      [] f.pc = "reenter" -> {Sig(f.sig)}
      [] OTHER -> {}

\* The collections thread t's next statement reads or writes, or that a loop
\* it is inside is walking, as the objects that own them.
Accesses(t) ==
  LET f == thread[t] IN
    CASE f.pc \in {"push_back", "remove", "sda_loop", "emit_loop", "reenter"}
           -> {Sig(f.sig)}
      [] f.pc = "insert" -> {Rcv(f.rcv)}
      [] f.pc = "erase" ->
           {Rcv(f.rcv)} \cup (IF f.op = "signal_disconnect_all"
                              THEN {Sig(f.sig)} ELSE {})
      [] f.pc = "signal_disconnect" /\ f.op = "signal_disconnect_all"
           -> {Sig(f.sig)}
      [] f.pc = "hda_loop" -> {Rcv(f.rcv)}
      [] f.pc = "slot_disconnect" -> {Rcv(f.rcv), Sig(f.sig)}
      [] f.pc = "copy_loop" -> {Rcv(f.src), Rcv(f.rcv)}
      [] f.pc = "slot_duplicate" -> {Rcv(f.src), Rcv(f.rcv), Sig(f.sig)}
      [] OTHER -> {}

\* The statements of thread t.
Runs(t) == IF t = 1 THEN SignalThread(1) ELSE ReceiverThread(2)

\* C14: under multi_threaded_local, with one thread in connect, disconnect or
\* disconnect_all of a signal and the other in disconnect_all, the destructor
\* or the copy constructor of a receiver, there is no state in which each
\* thread holds one object's mutex and waits for the mutex the other holds.
C14_NoLockOrderDeadlock ==
  policy = "multi_threaded_local" =>
    ~ \E t \in Threads, u \in Threads :
        /\ t # u
        /\ thread[t].op # "emit"
        /\ thread[u].op # "emit"
        /\ \E o \in WaitsFor(t) : Holder(o) = u
        /\ \E o \in WaitsFor(u) : Holder(o) = t

\* C15: under multi_threaded_global, with no other thread active, a thread
\* that has called connect, disconnect of a connected receiver, disconnect_all
\* of a signal with connections or of a receiver with senders, or the copy
\* constructor of a receiver with senders, has returned or can take its next
\* step.
C15_GlobalPolicyRunsToCompletion ==
  \A t \in Threads :
    (/\ policy = "multi_threaded_global"
     /\ ~crashed
     /\ thread[Other(t)].pc = "idle"
     /\ thread[t].op \in {"connect", "disconnect", "signal_disconnect_all",
                          "has_slots_disconnect_all", "has_slots_copy"})
      => (thread[t].pc = "done" \/ ENABLED Runs(t))

\* C16: under multi_threaded_local, a thread that reads or writes a sender
\* set or a connection list, or is inside a loop over one, holds the mutex of
\* the object that owns it.
C16_LockCoverage ==
  policy = "multi_threaded_local" =>
    \A t \in Threads : \A o \in Accesses(t) : Holder(o) = t

\* C17: under multi_threaded_local, once disconnect_all() of receiver R (or
\* R's destructor) has returned on thread 2, having found signal S in R's
\* sender set, the emit of S on thread 1 calls no handler on R.
C17_NoCallAfterTeardown ==
  [][(/\ policy = "multi_threaded_local"
      /\ thread[2].pc \in {"dtor", "done"}
      /\ thread[2].op \in {"has_slots_disconnect_all", "~has_slots"}
      /\ thread[1].sig \in thread[2].seen)
       => ~(/\ thread[1].pc = "emit_loop"
            /\ thread'[1] # thread[1]
            /\ thread[1].it <= Len(m_connected_slots[thread[1].sig])
            /\ getdest(m_connected_slots[thread[1].sig][thread[1].it])
                 = thread[2].rcv)]_vars

\* emit had called a handler on R and was still running when disconnect_all
\* of R took R's mutex, and both have returned.
C17_Witness ==
  /\ policy = "multi_threaded_local"
  /\ ~crashed
  /\ thread[2].pc = "done"
  /\ thread[2].op = "has_slots_disconnect_all"
  /\ thread[2].during = "emit_loop"
  /\ thread[1].sig \in thread[2].seen
  /\ thread[1].pc = "done"
  /\ thread[1].op = "emit"
  /\ thread[1].it >= 2
  /\ ~HasConnTo(m_connected_slots[thread[1].sig], thread[2].rcv)

\* C18: a handler called by emit that calls connect, disconnect or emit of
\* the emitting signal can take that call's lock exactly under
\* single_threaded; under the two other policies the mutex it waits for is
\* held by its own thread, so the call and the outer emit never return.
C18_ReentrancyHazard ==
  \A t \in Threads :
    (thread[t].pc = "reenter" /\ ~crashed) =>
      /\ (ENABLED EmitNested(t)) <=> (policy = "single_threaded")
      /\ policy # "single_threaded" =>
           /\ Holder(Sig(thread[t].sig)) = t
           /\ ~ ENABLED Runs(t)

\* A handler has called disconnect from inside emit under
\* multi_threaded_local.
C18_Witness ==
  /\ policy = "multi_threaded_local"
  /\ thread[1].pc = "reenter"
  /\ thread[1].nested = "disconnect"
  /\ thread[1].it = 2

=============================================================================
